---- MODULE Spec2Model ----
(***************************************************************************)
(* Text Summarizer API (src/main.py): the synchronous handler              *)
(* summarize_text and the streaming handler summarize_text_stream with its *)
(* generator generate_stream, for one request against the Writer upstream. *)
(* Strings are sequences of one-character strings.                         *)
(***************************************************************************)
EXTENDS Integers, Sequences, FiniteSets, TLC

\* ------------------------------------------------------------------ bounds
\* longest upstream stream (number of chunks pulled) the model explores
MaxChunks == 3

\* the same, for each of two streams relayed concurrently
MaxConcChunks == 1

\* ------------------------------------------------------- program constants
MinTextLen == 50
DefaultMaxTokens == 500

\* ------------------------------------------------------------ string tools
WhiteSpace == {" ", "\n", "\t"}

UpperChars == <<"A","B","C","D","E","F","G","H","I","J","K","L","M","N","O","P","Q","R","S","T","U","V","W","X","Y","Z">>

LowerChars == <<"a","b","c","d","e","f","g","h","i","j","k","l","m","n","o","p","q","r","s","t","u","v","w","x","y","z">>

\* str.lower() on one character
LowerChar(c) ==
  IF \E i \in 1..26 : UpperChars[i] = c
    THEN LowerChars[CHOOSE i \in 1..26 : UpperChars[i] = c]
    ELSE c

\* str.lower()
Lower(s) == [i \in 1..Len(s) |-> LowerChar(s[i])]

\* the Python operator `sub in s` on strings
Contains(s, sub) ==
  \E i \in 1..(Len(s) - Len(sub) + 1) : SubSeq(s, i, i + Len(sub) - 1) = sub

\* str.strip(): drop leading and trailing whitespace
RECURSIVE FirstNonSpace(_, _)
FirstNonSpace(s, i) ==
  IF i > Len(s) \/ s[i] \notin WhiteSpace THEN i ELSE FirstNonSpace(s, i + 1)

RECURSIVE LastNonSpace(_, _)
LastNonSpace(s, i) ==
  IF i < 1 \/ s[i] \notin WhiteSpace THEN i ELSE LastNonSpace(s, i - 1)

Strip(s) == SubSeq(s, FirstNonSpace(s, 1), LastNonSpace(s, Len(s)))

\* str.split() with no argument: the maximal runs of non-whitespace
RECURSIVE SplitFrom(_, _, _)
SplitFrom(s, i, cur) ==
  IF i > Len(s)
    THEN IF cur = <<>> THEN <<>> ELSE <<cur>>
    ELSE IF s[i] \in WhiteSpace
      THEN (IF cur = <<>> THEN <<>> ELSE <<cur>>) \o SplitFrom(s, i + 1, <<>>)
      ELSE SplitFrom(s, i + 1, Append(cur, s[i]))

Split(s) == SplitFrom(s, 1, <<>>)

\* count_words as len(text.split(" ")): the pieces between single spaces
count_words_by_spaces(text) == Cardinality({i \in 1..Len(text) : text[i] = " "}) + 1

count_words(text) == Len(Split(Strip(text)))

\* compression_ratio with negative values clamped to 0
compression_ratio_clamped(s, o) ==
  IF o > 0
    THEN LET n == 1000 * (o - s)
             q == n \div o
             r == n - q * o
             v == IF 2 * r < o THEN q
                  ELSE IF 2 * r > o THEN q + 1
                  ELSE IF q % 2 = 0 THEN q ELSE q + 1
         IN IF v < 0 THEN 0 ELSE v
    ELSE 0

\* round((1 - s / o) * 100, 1) if o > 0 else 0, in tenths of a percent
\* (round-half-even on the first decimal)
compression_ratio(s, o) ==
  IF o > 0
    THEN LET n == 1000 * (o - s)
             q == n \div o
             r == n - q * o
         IN IF 2 * r < o THEN q
            ELSE IF 2 * r > o THEN q + 1
            ELSE IF q % 2 = 0 THEN q ELSE q + 1
    ELSE 0

\* ---------------------------------------------------------- fixed messages
EmptyTextDetail == <<"T","e","x","t"," ","c","a","n","n","o","t"," ","b","e"," ","e","m","p","t","y">>

ShortTextDetail == <<"T","e","x","t"," ","m","u","s","t"," ","b","e"," ","a","t"," ","l","e","a","s","t"," ","5","0"," ","c","h","a","r","a","c","t","e","r","s"," ","l","o","n","g">>

ApiKeyDetail == <<"W","r","i","t","e","r"," ","A","P","I"," ","k","e","y"," ","n","o","t"," ","c","o","n","f","i","g","u","r","e","d","."," ","P","l","e","a","s","e"," ","s","e","t"," ","W","R","I","T","E","R","_","A","P","I","_","K","E","Y"," ","e","n","v","i","r","o","n","m","e","n","t"," ","v","a","r","i","a","b","l","e",".">>

RateLimitDetail == <<"R","a","t","e"," ","l","i","m","i","t"," ","e","x","c","e","e","d","e","d","."," ","P","l","e","a","s","e"," ","t","r","y"," ","a","g","a","i","n"," ","l","a","t","e","r",".">>

ErrorPrefix == <<"E","r","r","o","r"," ","g","e","n","e","r","a","t","i","n","g"," ","s","u","m","m","a","r","y",":"," ">>

ApiKeyIndicator == <<"a","p","i","_","k","e","y">>

RateLimitIndicator == <<"r","a","t","e"," ","l","i","m","i","t">>

\* ------------------------------------------------------------------ inputs
Word(n) == [i \in 1..n |-> "x"]

Pad(n) == [i \in 1..n |-> " "]

\* request texts around the validation boundary
TextInputs ==
  { <<>>,
    Pad(3),
    Pad(MinTextLen + 2),
    Word(MinTextLen - 1),
    Pad(1) \o Word(MinTextLen - 1) \o <<"\n">>,
    Word(MinTextLen - 26) \o Pad(1) \o Word(24),
    Word(MinTextLen),
    Pad(2) \o Word(MinTextLen),
    Word(MinTextLen - 25) \o Pad(1) \o Word(24),
    Word(MinTextLen - 30) \o <<"\n">> \o Word(19) \o Pad(2) \o Word(20) }

\* JSON null for the optional string field
Null == "<null>"

Styles == {"concise", "detailed", "bullet_points", "fancy", Null}

\* Optional[int]: isNone marks an omitted / null max_length
NoMaxLength == [isNone |-> TRUE, v |-> 0]

MaxLengths == {NoMaxLength} \cup {[isNone |-> FALSE, v |-> n] : n \in {-1, 0, 120}}

Requests == [text : TextInputs, max_length : MaxLengths, style : Styles]

\* str(e) of the errors the upstream raises
ErrMsgs ==
  { <<"I","n","v","a","l","i","d"," ","A","P","I","_","K","E","Y">>,
    <<"r","a","t","e"," ","l","i","m","i","t"," ","e","x","c","e","e","d","e","d">>,
    <<"R","a","t","e"," ","L","i","m","i","t"," ","h","i","t">>,
    <<"a","p","i","_","k","e","y"," ","r","a","t","e"," ","l","i","m","i","t">>,
    <<"b","o","o","m">> }

\* response.choices[0].message.content of a complete (non-streamed) result
Summaries ==
  { <<>>, <<"a">>, <<" ","a"," ","b","\n">>, <<"a"," ","b"," ","c">>,
    <<" ","b"," ","b">> }

\* result of the non-streamed upstream call: it raises msg or returns content
SyncOutcomes ==
  {[raises |-> TRUE, msg |-> m, content |-> <<>>] : m \in ErrMsgs}
    \cup {[raises |-> FALSE, msg |-> <<>>, content |-> c] : c \in Summaries}

\* chunk.choices[0].delta of a streamed chunk: the content attribute may be
\* missing, None, empty or a piece of text
Chunks ==
  { [hasattr |-> FALSE, isNone |-> FALSE, content |-> <<>>],
    [hasattr |-> TRUE, isNone |-> TRUE, content |-> <<>>],
    [hasattr |-> TRUE, isNone |-> FALSE, content |-> <<>>],
    [hasattr |-> TRUE, isNone |-> FALSE, content |-> <<"a">>],
    [hasattr |-> TRUE, isNone |-> FALSE, content |-> <<" ","b">>] }

\* ------------------------------------------------------------------- values
NoException == [cls |-> "none", status_code |-> 0, detail |-> <<>>, msg |-> <<>>]

HTTPException(status_code, detail) ==
  [cls |-> "HTTPException", status_code |-> status_code, detail |-> detail, msg |-> <<>>]

StatusStr(status_code) ==
  IF status_code = 400 THEN <<"4","0","0">>
  ELSE IF status_code = 401 THEN <<"4","0","1">>
  ELSE IF status_code = 429 THEN <<"4","2","9">>
  ELSE <<"5","0","0">>

\* str(e): an upstream error prints its message; an HTTPException prints
\* "<status>: <detail>", or nothing on frameworks that define no __str__
StrOf(e) ==
  IF e.cls = "HTTPException"
    THEN {<<>>, StatusStr(e.status_code) \o <<":"," ">> \o e.detail}
    ELSE {e.msg}

NoResponse ==
  [status |-> 0, media_type |-> "", detail |-> <<>>, summary |-> <<>>,
   original_word_count |-> 0, summary_word_count |-> 0, compression_ratio |-> 0]

\* the response FastAPI sends for an HTTPException that leaves the handler
ErrorResponse(e) ==
  [NoResponse EXCEPT !.status = e.status_code, !.media_type = "application/json",
                     !.detail = e.detail]

TextSummarizeResponse(summary, owc, swc, ratio) ==
  [NoResponse EXCEPT !.status = 200, !.media_type = "application/json",
                     !.summary = summary, !.original_word_count = owc,
                     !.summary_word_count = swc, !.compression_ratio = ratio]

StreamingResponse ==
  [NoResponse EXCEPT !.status = 200, !.media_type = "text/event-stream"]

NoEvent ==
  [type |-> "", content |-> <<>>, message |-> <<>>, summary |-> <<>>,
   original_word_count |-> 0, summary_word_count |-> 0, compression_ratio |-> 0]

ChunkEvent(content) == [NoEvent EXCEPT !.type = "chunk", !.content = content]

CompleteEvent(summary, owc, swc, ratio) ==
  [NoEvent EXCEPT !.type = "complete", !.summary = summary,
                  !.original_word_count = owc, !.summary_word_count = swc,
                  !.compression_ratio = ratio]

ErrorEvent(message) == [NoEvent EXCEPT !.type = "error", !.message = message]

NoUpstreamError == [raised |-> FALSE, at |-> "", msg |-> <<>>]

\* the upstream raised an exception printing as msg, at the call ("call"),
\* at the call opening the stream ("open") or during iteration ("relay")
UpstreamError(at, msg) == [raised |-> TRUE, at |-> at, msg |-> msg]

\* ----------------------------------------------------------- handler parts
\* ValidationError reduced to a length test of the untrimmed text
ValidationErrorLengthOnly(text) ==
  IF Len(text) < MinTextLen
    THEN HTTPException(400, ShortTextDetail)
    ELSE NoException

\* ValidationError measuring the untrimmed text
ValidationErrorUntrimmed(text) ==
  IF Strip(text) = <<>>
    THEN HTTPException(400, EmptyTextDetail)
    ELSE IF Len(text) < MinTextLen
      THEN HTTPException(400, ShortTextDetail)
      ELSE NoException

\* the two validation checks at the top of both handlers
ValidationError(text) ==
  IF Strip(text) = <<>>
    THEN HTTPException(400, EmptyTextDetail)
    ELSE IF Len(Strip(text)) < MinTextLen
      THEN HTTPException(400, ShortTextDetail)
      ELSE NoException

\* the prompt template chosen by style in the synchronous handler, with the
\* text interpolated
BuildPrompt(text, style) ==
  IF style = "bullet_points"
    THEN [head |-> "Please summarize the following text in bullet points format. Focus on the key points and main ideas:\n\n",
          text |-> text, tail |-> "\n\nSummary (bullet points):"]
    ELSE IF style = "detailed"
      THEN [head |-> "Please provide a detailed summary of the following text, maintaining important details and context:\n\n",
            text |-> text, tail |-> "\n\nDetailed summary:"]
      ELSE [head |-> "Please provide a concise summary of the following text, capturing the main points in a clear and brief manner:\n\n",
            text |-> text, tail |-> "\n\nConcise summary:"]

\* BuildPromptStream with an unrecognized style rejected in place of the
\* concise fallback
BuildPromptStreamStrict(text, style) ==
  IF style = "bullet_points"
    THEN [head |-> "Please summarize the following text in bullet points format. Focus on the key points and main ideas:\n\n",
          text |-> text, tail |-> "\n\nSummary (bullet points):"]
    ELSE IF style = "detailed"
      THEN [head |-> "Please provide a detailed summary of the following text, maintaining important details and context:\n\n",
            text |-> text, tail |-> "\n\nDetailed summary:"]
      ELSE IF style \in {"concise", Null}
        THEN [head |-> "Please provide a concise summary of the following text, capturing the main points in a clear and brief manner:\n\n",
              text |-> text, tail |-> "\n\nConcise summary:"]
        ELSE [head |-> "", text |-> text, tail |-> ""]

\* the same selection in the streaming handler
BuildPromptStream(text, style) ==
  IF style = "bullet_points"
    THEN [head |-> "Please summarize the following text in bullet points format. Focus on the key points and main ideas:\n\n",
          text |-> text, tail |-> "\n\nSummary (bullet points):"]
    ELSE IF style = "detailed"
      THEN [head |-> "Please provide a detailed summary of the following text, maintaining important details and context:\n\n",
            text |-> text, tail |-> "\n\nDetailed summary:"]
      ELSE [head |-> "Please provide a concise summary of the following text, capturing the main points in a clear and brief manner:\n\n",
            text |-> text, tail |-> "\n\nConcise summary:"]

\* request.max_length if request.max_length else 500
MaxTokens(max_length) ==
  IF (~max_length.isNone) /\ max_length.v # 0 THEN max_length.v ELSE DefaultMaxTokens

UpstreamCall(req, stream) ==
  [model |-> "palmyra-x-004",
   prompt |-> IF stream THEN BuildPromptStream(req.text, req.style)
                        ELSE BuildPrompt(req.text, req.style),
   max_tokens |-> MaxTokens(req.max_length), stream |-> stream]

\* HandleException with the two indicator tests in the other order
HandleExceptionRateLimitFirst(s) ==
  IF Contains(Lower(s), RateLimitIndicator)
    THEN HTTPException(429, RateLimitDetail)
    ELSE IF Contains(Lower(s), ApiKeyIndicator)
      THEN HTTPException(401, ApiKeyDetail)
      ELSE HTTPException(500, ErrorPrefix \o s)

\* the except clause of both handlers, applied to s = str(e)
HandleException(s) ==
  IF Contains(Lower(s), ApiKeyIndicator)
    THEN HTTPException(401, ApiKeyDetail)
    ELSE IF Contains(Lower(s), RateLimitIndicator)
      THEN HTTPException(429, RateLimitDetail)
      ELSE HTTPException(500, ErrorPrefix \o s)

\* HasContent without the truthiness test of the content
HasContentAttribute(c) == c.hasattr /\ ~c.isNone

\* the delta carries text: hasattr(delta, 'content') and delta.content
HasContent(c) == c.hasattr /\ ~c.isNone /\ c.content # <<>>

\* -------------------------------------------------------------------- state
VARIABLES
  endpoint,             \* "sync" (POST /api/summarize) or "stream" (.../stream)
  request,              \* the parsed TextSummarizeRequest
  pc,                   \* "received", "responded", "streaming", "relay", "closed",
                        \* "cancelled"
  response,             \* the HTTP response sent, NoResponse before
  upstream_calls,       \* the writer_client.chat.chat calls made, in order
  pulled,               \* the chunks pulled from the upstream stream, in order
  summary_text,         \* the generator's accumulator
  original_word_count,  \* the generator's captured original word count
  events,               \* the SSE events yielded, in order
  upstream_error,       \* the exception the upstream raised, if any, and where
  client_connected,     \* the client still holds the connection of the response
  other                 \* the locals of a second request in flight, or NoOther

vars == <<endpoint, request, pc, response, upstream_calls, pulled, summary_text,
          original_word_count, events, upstream_error, client_connected, other>>

\* the state of a request before its handler runs
NewRequest(e, req) ==
  [endpoint |-> e, request |-> req, pc |-> "received", response |-> NoResponse,
   upstream_calls |-> <<>>, pulled |-> <<>>, summary_text |-> <<>>,
   original_word_count |-> 0, events |-> <<>>, upstream_error |-> NoUpstreamError,
   client_connected |-> TRUE]

\* no second request
NoOther ==
  [NewRequest("", [text |-> <<>>, max_length |-> NoMaxLength, style |-> Null])
     EXCEPT !.pc = "absent"]

\* the locals of the request the process is running
Current ==
  [endpoint |-> endpoint, request |-> request, pc |-> pc, response |-> response,
   upstream_calls |-> upstream_calls, pulled |-> pulled, summary_text |-> summary_text,
   original_word_count |-> original_word_count, events |-> events,
   upstream_error |-> upstream_error, client_connected |-> client_connected]

Init ==
  /\ endpoint \in {"sync", "stream"}
  /\ request \in Requests
  /\ pc = "received"
  /\ response = NoResponse
  /\ upstream_calls = <<>>
  /\ pulled = <<>>
  /\ summary_text = <<>>
  /\ original_word_count = 0
  /\ events = <<>>
  /\ upstream_error = NoUpstreamError
  /\ client_connected = TRUE
  /\ other = NoOther

\* POST /api/summarize: validate, call the upstream, shape the response; every
\* exception raised in the body, the validation errors included, goes through
\* the except clause
summarize_text ==
  /\ pc = "received"
  /\ endpoint = "sync"
  /\ pc' = "responded"
  /\ LET verr == ValidationError(request.text)
     IN IF verr.cls # "none"
          THEN /\ \E s \in StrOf(verr) : response' = ErrorResponse(HandleException(s))
               /\ UNCHANGED <<upstream_calls, upstream_error>>
          ELSE /\ upstream_calls' = Append(upstream_calls, UpstreamCall(request, FALSE))
               /\ \E up \in SyncOutcomes :
                    IF up.raises
                      THEN /\ response' = ErrorResponse(HandleException(up.msg))
                           /\ upstream_error' = UpstreamError("call", up.msg)
                      ELSE LET owc == count_words(request.text)
                               summary == Strip(up.content)
                               swc == count_words(summary)
                           IN /\ response' = TextSummarizeResponse(summary, owc, swc,
                                                 compression_ratio(swc, owc))
                              /\ UNCHANGED upstream_error
  /\ UNCHANGED <<endpoint, request, pulled, summary_text, original_word_count, events>>
  /\ UNCHANGED <<client_connected, other>>

\* POST /api/summarize/stream: validate and return the StreamingResponse; the
\* generator body has not run when the handler returns
summarize_text_stream ==
  /\ pc = "received"
  /\ endpoint = "stream"
  /\ LET verr == ValidationError(request.text)
     IN IF verr.cls # "none"
          THEN /\ \E s \in StrOf(verr) : response' = ErrorResponse(HandleException(s))
               /\ pc' = "responded"
               /\ UNCHANGED original_word_count
          ELSE /\ response' = StreamingResponse
               /\ pc' = "streaming"
               /\ original_word_count' = count_words(request.text)
  /\ UNCHANGED <<endpoint, request, upstream_calls, pulled, summary_text, events,
                 upstream_error>>
  /\ UNCHANGED <<client_connected, other>>

\* generate_stream, first resumption: the streamed upstream call; an exception
\* it raises is caught by the generator's own except clause
OpenStream ==
  /\ pc = "streaming"
  /\ upstream_calls' = Append(upstream_calls, UpstreamCall(request, TRUE))
  /\ summary_text' = <<>>
  /\ \/ /\ pc' = "relay"
        /\ UNCHANGED <<events, upstream_error>>
     \/ \E m \in ErrMsgs :
          /\ upstream_error' = UpstreamError("open", m)
          /\ events' = Append(events, ErrorEvent(m))
          /\ pc' = "closed"
  /\ UNCHANGED <<endpoint, request, response, pulled, original_word_count>>
  /\ UNCHANGED <<client_connected, other>>

\* the number of chunks explored for the running request
ChunkBound == IF other.endpoint = "stream" THEN MaxConcChunks ELSE MaxChunks

\* RelayChunk with the accumulated text yielded in place of the increment
RelayChunkYieldsAccumulated ==
  /\ pc = "relay"
  /\ Len(pulled) < ChunkBound
  /\ \E c \in Chunks :
       /\ pulled' = Append(pulled, c)
       /\ IF HasContent(c)
            THEN /\ summary_text' = summary_text \o c.content
                 /\ events' = Append(events, ChunkEvent(summary_text \o c.content))
            ELSE UNCHANGED <<summary_text, events>>
  /\ UNCHANGED <<endpoint, request, pc, response, upstream_calls, original_word_count,
                 upstream_error>>
  /\ UNCHANGED <<client_connected, other>>

\* generate_stream, one iteration of `for chunk in stream`
RelayChunk ==
  /\ pc = "relay"
  /\ Len(pulled) < ChunkBound
  /\ \E c \in Chunks :
       /\ pulled' = Append(pulled, c)
       /\ IF HasContent(c)
            THEN /\ summary_text' = summary_text \o c.content
                 /\ events' = Append(events, ChunkEvent(c.content))
            ELSE UNCHANGED <<summary_text, events>>
  /\ UNCHANGED <<endpoint, request, pc, response, upstream_calls, original_word_count,
                 upstream_error>>
  /\ UNCHANGED <<client_connected, other>>

\* RelayError with the error event replacing what was sent before
RelayErrorRetracts ==
  /\ pc = "relay"
  /\ \E m \in ErrMsgs :
       /\ upstream_error' = UpstreamError("relay", m)
       /\ events' = <<ErrorEvent(m)>>
  /\ pc' = "closed"
  /\ UNCHANGED <<endpoint, request, response, upstream_calls, pulled, summary_text,
                 original_word_count>>
  /\ UNCHANGED <<client_connected, other>>

\* RelayError with the message mapped as the handlers' except clause maps it
RelayErrorMapped ==
  /\ pc = "relay"
  /\ \E m \in ErrMsgs :
       /\ upstream_error' = UpstreamError("relay", m)
       /\ events' = Append(events, ErrorEvent(HandleException(m).detail))
  /\ pc' = "closed"
  /\ UNCHANGED <<endpoint, request, response, upstream_calls, pulled, summary_text,
                 original_word_count>>
  /\ UNCHANGED <<client_connected, other>>

\* generate_stream: the upstream iterator raises while the relay waits for the
\* next chunk
RelayError ==
  /\ pc = "relay"
  /\ \E m \in ErrMsgs :
       /\ upstream_error' = UpstreamError("relay", m)
       /\ events' = Append(events, ErrorEvent(m))
  /\ pc' = "closed"
  /\ UNCHANGED <<endpoint, request, response, upstream_calls, pulled, summary_text,
                 original_word_count>>
  /\ UNCHANGED <<client_connected, other>>

\* Finalize with a failure after the complete event was yielded
FinalizeThenError ==
  /\ pc = "relay"
  /\ LET swc == count_words(summary_text)
     IN events' = events \o
          << CompleteEvent(summary_text, original_word_count, swc,
                           compression_ratio(swc, original_word_count)),
             ErrorEvent(<<"b","o","o","m">>) >>
  /\ pc' = "closed"
  /\ UNCHANGED <<endpoint, request, response, upstream_calls, pulled, summary_text,
                 original_word_count, upstream_error>>
  /\ UNCHANGED <<client_connected, other>>

\* Finalize with the summary trimmed as the synchronous handler trims it
FinalizeStripped ==
  /\ pc = "relay"
  /\ LET swc == count_words(summary_text)
     IN events' = Append(events, CompleteEvent(Strip(summary_text), original_word_count,
                                   swc, compression_ratio(swc, original_word_count)))
  /\ pc' = "closed"
  /\ UNCHANGED <<endpoint, request, response, upstream_calls, pulled, summary_text,
                 original_word_count, upstream_error>>
  /\ UNCHANGED <<client_connected, other>>

\* generate_stream: the upstream iterator is exhausted; final statistics
Finalize ==
  /\ pc = "relay"
  /\ LET swc == count_words(summary_text)
     IN events' = Append(events, CompleteEvent(summary_text, original_word_count, swc,
                                   compression_ratio(swc, original_word_count)))
  /\ pc' = "closed"
  /\ UNCHANGED <<endpoint, request, response, upstream_calls, pulled, summary_text,
                 original_word_count, upstream_error>>
  /\ UNCHANGED <<client_connected, other>>

\* the generator is suspended at the yield of a chunk event
GeneratorSuspended == pulled # <<>> /\ HasContent(pulled[Len(pulled)])

\* the client closes the connection in mid-stream; generate_stream holds no
\* test of the connection, so nothing changes on the generator's side
ClientDisconnect ==
  /\ pc = "relay"
  /\ client_connected
  /\ client_connected' = FALSE
  /\ UNCHANGED <<endpoint, request, pc, response, upstream_calls, pulled, summary_text,
                 original_word_count, events, upstream_error, other>>

\* the StreamingResponse learns of the disconnect and no longer resumes the
\* generator; this can happen only while the generator is suspended at a yield
StopStream ==
  /\ pc = "relay"
  /\ ~client_connected
  /\ GeneratorSuspended
  /\ pc' = "cancelled"
  /\ UNCHANGED <<endpoint, request, response, upstream_calls, pulled, summary_text,
                 original_word_count, events, upstream_error, client_connected, other>>

Next ==
  \/ summarize_text
  \/ summarize_text_stream
  \/ OpenStream
  \/ RelayChunk
  \/ RelayError
  \/ Finalize
  \/ ClientDisconnect
  \/ StopStream

Spec == Init /\ [][Next]_vars

\* ------------------------------------------------- two requests in flight
\* requests of the concurrent runs: valid texts of one and of three words
ConcRequests ==
  { r \in Requests :
      /\ r.text \in { Word(MinTextLen),
                      Word(MinTextLen - 30) \o <<"\n">> \o Word(19) \o Pad(2) \o Word(20) }
      /\ r.max_length = NoMaxLength
      /\ r.style = "concise" }

InitConc ==
  /\ endpoint \in {"sync", "stream"}
  /\ request \in ConcRequests
  /\ pc = "received"
  /\ response = NoResponse
  /\ upstream_calls = <<>>
  /\ pulled = <<>>
  /\ summary_text = <<>>
  /\ original_word_count = 0
  /\ events = <<>>
  /\ upstream_error = NoUpstreamError
  /\ client_connected = TRUE
  /\ other \in {NewRequest(e, r) : e \in {"sync", "stream"}, r \in ConcRequests}

\* Switch with the accumulator kept in one place for all requests
SwitchSharedAccumulator ==
  /\ other.pc # "absent"
  /\ endpoint' = other.endpoint
  /\ request' = other.request
  /\ pc' = other.pc
  /\ response' = other.response
  /\ upstream_calls' = other.upstream_calls
  /\ pulled' = other.pulled
  /\ summary_text' = summary_text
  /\ original_word_count' = other.original_word_count
  /\ events' = other.events
  /\ upstream_error' = other.upstream_error
  /\ client_connected' = other.client_connected
  /\ other' = Current

\* the process turns from one request to the other: every handler call and
\* every generator has its own locals, which it finds again when it runs next
Switch ==
  /\ other.pc # "absent"
  /\ endpoint' = other.endpoint
  /\ request' = other.request
  /\ pc' = other.pc
  /\ response' = other.response
  /\ upstream_calls' = other.upstream_calls
  /\ pulled' = other.pulled
  /\ summary_text' = other.summary_text
  /\ original_word_count' = other.original_word_count
  /\ events' = other.events
  /\ upstream_error' = other.upstream_error
  /\ client_connected' = other.client_connected
  /\ other' = Current

NextConc ==
  \/ Next
  \/ Switch

SpecConc == InitConc /\ [][NextConc]_vars

\* ------------------------------------------------------------------ claims
IsChunkEvent(e) == e.type = "chunk"

ChunkEvents == SelectSeq(events, IsChunkEvent)

RECURSIVE Concat(_)
Concat(ss) == IF ss = <<>> THEN <<>> ELSE Head(ss) \o Concat(Tail(ss))

\* the concatenation of the content of the chunk events among evs, in order
ChunkContents(evs) ==
  LET cs == SelectSeq(evs, IsChunkEvent)
  IN Concat([i \in 1..Len(cs) |-> cs[i].content])

\* C1: a request whose text is empty, whitespace-only or shorter than 50
\* characters after trimming ends, on both endpoints, in an HTTP error with
\* status 400 and a non-empty detail message.
C1_ValidationFailureIs400 ==
  (pc # "received" /\ Len(Strip(request.text)) < MinTextLen)
    => (response.status = 400 /\ response.detail # <<>>)

\* C2: on the streaming endpoint a failure of the upstream call that opens the
\* stream yields a plain HTTP error response with the status of the synchronous
\* mapping (401 / 429 / 500): no event-stream response and no error event.
C2_OpenFailureIsHttpError ==
  (endpoint = "stream" /\ upstream_error.raised /\ upstream_error.at = "open")
    => /\ response.status \in {401, 429, 500}
       /\ response.media_type # "text/event-stream"
       /\ \A i \in 1..Len(events) : events[i].type # "error"

\* C3: the events of a streaming request are chunk events followed, once the
\* stream is consumed to the end, by exactly one terminal event: complete if
\* the upstream raised nothing, error otherwise; nothing follows the terminal
\* event and no terminal event is emitted before the end.
C3_OneTerminalEvent ==
  /\ \A i \in 1..(Len(events) - 1) : events[i].type = "chunk"
  /\ pc = "closed"
       => /\ events # <<>>
          /\ events[Len(events)].type =
               IF upstream_error.raised THEN "error" ELSE "complete"
  /\ pc # "closed" => \A i \in 1..Len(events) : events[i].type = "chunk"

C3_Witness ==
  /\ pc = "closed"
  /\ Len(events) = 3
  /\ events[1].type = "chunk"
  /\ events[2].type = "chunk"
  /\ events[3].type = "complete"

\* C4: at every point of the relay the accumulator is the concatenation of the
\* chunk contents emitted so far, and the summary of a complete event is the
\* concatenation of the contents of the chunk events before it.
C4_SummaryIsConcatOfChunks ==
  /\ summary_text = ChunkContents(events)
  /\ \A i \in 1..Len(events) :
       events[i].type = "complete"
         => events[i].summary = ChunkContents(SubSeq(events, 1, i - 1))

C4_Witness ==
  /\ pc = "closed"
  /\ Len(events) = 3
  /\ events[3].type = "complete"
  /\ events[3].summary = <<"a", " ", "b">>

\* C5: the chunk events are, in order and one for one, the content-carrying
\* chunks pulled from the upstream so far: each is emitted before the next
\* chunk is pulled, none is held back, merged or reordered.
C5_RelayInOrder ==
  LET carrying == SelectSeq(pulled, HasContent)
  IN /\ Len(ChunkEvents) = Len(carrying)
     /\ \A i \in 1..Len(carrying) : ChunkEvents[i].content = carrying[i].content

C5_Witness ==
  /\ pc = "relay"
  /\ Len(pulled) = 3
  /\ ~HasContent(pulled[2])
  /\ Len(ChunkEvents) = 2
  /\ ChunkEvents[1].content = <<" ", "b">>
  /\ ChunkEvents[2].content = <<"a">>

TrimmedLen == Len(Strip(request.text))

RateLimitExceeded == <<"r","a","t","e"," ","l","i","m","i","t"," ","e","x","c","e","e","d","e","d">>

\* C6: the upstream is called only for a request that passed validation: never
\* when the trimmed text is shorter than 50 characters, and a request with a
\* trimmed text of 50 characters or more goes on to the upstream call (made by
\* the handler, or by the generator at its first step on the streaming
\* endpoint).
C6_UpstreamOnlyAfterValidation ==
  LET n == TrimmedLen
  IN /\ upstream_calls # <<>> => n >= MinTextLen
     /\ n < MinTextLen => pc \in {"received", "responded"}
     /\ n >= MinTextLen
          => /\ (endpoint = "sync" /\ pc = "responded") => Len(upstream_calls) = 1
             /\ (endpoint = "stream" /\ pc # "received")
                  => /\ pc # "responded"
                     /\ pc = "streaming" \/ Len(upstream_calls) = 1

C6_Witness ==
  /\ pc = "responded"
  /\ Len(request.text) > MinTextLen
  /\ TrimmedLen = MinTextLen - 1
  /\ upstream_calls = <<>>

\* C7: on the synchronous endpoint an exception of the upstream call becomes
\* exactly one HTTP error, chosen by case-insensitive search of its message:
\* 401 with the fixed API-key message if it holds "api_key", otherwise 429 with
\* the fixed rate-limit message if it holds "rate limit", otherwise 500 with
\* the message after "Error generating summary: ".
C7_SyncErrorMapping ==
  (endpoint = "sync" /\ upstream_error.raised)
    => LET msg == upstream_error.msg
           api == Contains(Lower(msg), ApiKeyIndicator)
           rate == Contains(Lower(msg), RateLimitIndicator)
       IN /\ pc = "responded"
          /\ response.media_type = "application/json"
          /\ api => (response.status = 401 /\ response.detail = ApiKeyDetail)
          /\ (~api /\ rate) => (response.status = 429 /\ response.detail = RateLimitDetail)
          /\ (~api /\ ~rate)
               => (response.status = 500 /\ response.detail = ErrorPrefix \o msg)
          /\ msg = <<"I","n","v","a","l","i","d"," ","A","P","I","_","K","E","Y">>
               => response.status = 401
          /\ msg = <<"R","a","t","e"," ","L","i","m","i","t"," ","h","i","t">>
               => response.status = 429
          /\ msg = <<"b","o","o","m">> => response.status = 500

C7_Witness ==
  /\ endpoint = "sync"
  /\ upstream_error.raised
  /\ Contains(upstream_error.msg, ApiKeyIndicator)
  /\ Contains(upstream_error.msg, RateLimitIndicator)
  /\ response.status = 401

\* C8: when the upstream raises after k >= 0 chunk events were relayed, the
\* stream is those k chunk events followed by one error event carrying the
\* upstream error's text; there is no complete event and the HTTP response
\* stays the 200 event stream.
C8_StreamErrorEvent ==
  (endpoint = "stream" /\ upstream_error.raised)
    => LET carrying == SelectSeq(pulled, HasContent)
           k == Len(carrying)
       IN /\ pc = "closed"
          /\ Len(events) = k + 1
          /\ \A i \in 1..k : events[i] = ChunkEvent(carrying[i].content)
          /\ events[k + 1] = ErrorEvent(upstream_error.msg)
          /\ response = StreamingResponse

C8_Witness ==
  /\ endpoint = "stream"
  /\ upstream_error.raised
  /\ upstream_error.at = "relay"
  /\ Len(events) = 3
  /\ events[3].type = "error"

\* C9 as stated: a mid-stream upstream error whose text contains "rate limit
\* exceeded" ends the stream with an error event carrying the fixed rate-limit
\* message of the synchronous endpoint's 429.
C9_StreamRateLimitFixedMessage ==
  (endpoint = "stream" /\ upstream_error.raised /\ upstream_error.at = "relay"
     /\ Contains(upstream_error.msg, RateLimitExceeded))
    => /\ events # <<>>
       /\ events[Len(events)].type = "error"
       /\ events[Len(events)].message = RateLimitDetail

\* C9 amended: a mid-stream upstream error whose text contains "rate limit
\* exceeded" ends the stream with an error event carrying the upstream error's
\* own text, which is not the fixed rate-limit message; the synchronous
\* endpoint answers the same error with 429 and the fixed message (401 if the
\* text also holds the API-key indicator).
C9_StreamRateLimitRawMessage ==
  (upstream_error.raised /\ Contains(upstream_error.msg, RateLimitExceeded))
    => /\ (endpoint = "stream" /\ upstream_error.at = "relay")
            => /\ events # <<>>
               /\ events[Len(events)].type = "error"
               /\ events[Len(events)].message = upstream_error.msg
               /\ events[Len(events)].message # RateLimitDetail
       /\ (endpoint = "sync" /\ ~Contains(Lower(upstream_error.msg), ApiKeyIndicator))
            => (response.status = 429 /\ response.detail = RateLimitDetail)

C9_Witness ==
  /\ endpoint = "stream"
  /\ upstream_error.at = "relay"
  /\ upstream_error.msg = RateLimitExceeded
  /\ Len(events) = 2
  /\ events[1].type = "chunk"
  /\ events[2].message = RateLimitExceeded

\* C10: every upstream call carries a positive max_tokens: the request's
\* max_length when one is supplied, 500 when it is omitted; a zero or negative
\* max_length never reaches the upstream.
C10_MaxTokensPositive ==
  \A i \in 1..Len(upstream_calls) :
    LET mt == upstream_calls[i].max_tokens
    IN /\ mt > 0
       /\ request.max_length.isNone => mt = DefaultMaxTokens
       /\ (~request.max_length.isNone /\ request.max_length.v > 0)
            => mt = request.max_length.v

\* the successful results reported so far: the synchronous response and the
\* complete events, as <<summary, original count, summary count, ratio>>
Reports ==
  (IF endpoint = "sync" /\ response.status = 200
     THEN {<<response.summary, response.original_word_count,
             response.summary_word_count, response.compression_ratio>>}
     ELSE {})
  \cup {<<events[i].summary, events[i].original_word_count,
          events[i].summary_word_count, events[i].compression_ratio>> :
          i \in {j \in 1..Len(events) : events[j].type = "complete"}}

\* ratio (in tenths of a percent) is (1 - s / o) * 100 rounded to one decimal,
\* ties to the even tenth
IsRoundedRatio(ratio, s, o) ==
  LET err == ratio * o - 1000 * (o - s)
      abs == IF err < 0 THEN -err ELSE err
  IN /\ 2 * abs <= o
     /\ 2 * abs = o => ratio % 2 = 0

\* C11: every successful result on either endpoint, with original word count
\* o > 0 and summary word count s as count_words gives them, reports the
\* compression ratio round((1 - s/o) * 100, 1) unclamped: negative when s > o,
\* 0.0 when s = o, 100.0 when s = 0.
C11_CompressionRatioExact ==
  \A rep \in Reports :
    LET o == rep[2]
        sw == rep[3]
        ratio == rep[4]
    IN /\ o = count_words(request.text)
       /\ sw = count_words(rep[1])
       /\ o > 0
            => /\ IsRoundedRatio(ratio, sw, o)
               /\ sw > o => ratio < 0
               /\ sw = o => ratio = 0
               /\ sw = 0 => ratio = 1000

C11_Witness ==
  /\ endpoint = "stream"
  /\ pc = "closed"
  /\ events # <<>>
  /\ events[Len(events)].type = "complete"
  /\ events[Len(events)].original_word_count = 1
  /\ events[Len(events)].summary_word_count = 3
  /\ events[Len(events)].compression_ratio = -2000

BulletPointsTemplate ==
  [head |-> "Please summarize the following text in bullet points format. Focus on the key points and main ideas:\n\n",
   tail |-> "\n\nSummary (bullet points):"]

DetailedTemplate ==
  [head |-> "Please provide a detailed summary of the following text, maintaining important details and context:\n\n",
   tail |-> "\n\nDetailed summary:"]

ConciseTemplate ==
  [head |-> "Please provide a concise summary of the following text, capturing the main points in a clear and brief manner:\n\n",
   tail |-> "\n\nConcise summary:"]

\* C12: on both endpoints the prompt of every upstream call is the template
\* selected by style around the unchanged request text: bullet_points and
\* detailed select their own templates, every other value (concise, an
\* unrecognized string, null) selects the concise template, and the three
\* templates differ from one another.
C12_PromptByStyle ==
  /\ \A i \in 1..Len(upstream_calls) :
       LET prompt == upstream_calls[i].prompt
           template == [head |-> prompt.head, tail |-> prompt.tail]
       IN /\ prompt.text = request.text
          /\ request.style = "bullet_points" => template = BulletPointsTemplate
          /\ request.style = "detailed" => template = DetailedTemplate
          /\ request.style \notin {"bullet_points", "detailed"}
               => template = ConciseTemplate
  /\ BulletPointsTemplate.head # DetailedTemplate.head
  /\ BulletPointsTemplate.head # ConciseTemplate.head
  /\ DetailedTemplate.head # ConciseTemplate.head

C12_Witness ==
  /\ endpoint = "stream"
  /\ request.style = "fancy"
  /\ Len(request.text) > Len(Strip(request.text))
  /\ Len(upstream_calls) = 1
  /\ upstream_calls[1].prompt.tail = "\n\nConcise summary:"
  /\ upstream_calls[1].prompt.text = request.text

\* the content attribute of the chunk is missing, None or empty
CarriesNoText(c) == ~c.hasattr \/ c.isNone \/ c.content = <<>>

\* C13: pulling an upstream chunk that carries no text emits no event, leaves
\* the accumulator unchanged, raises no error and does not end the stream: the
\* relay stays in its loop, ready for the next chunk.
C13_EmptyChunkTolerated ==
  [][ (Len(pulled') = Len(pulled) + 1 /\ CarriesNoText(pulled'[Len(pulled')]))
        => /\ events' = events
           /\ summary_text' = summary_text
           /\ upstream_error' = upstream_error
           /\ pc' = "relay" ]_vars

C13_Witness ==
  /\ pc = "closed"
  /\ Len(pulled) = 3
  /\ ~pulled[1].hasattr
  /\ pulled[2].isNone
  /\ pulled[3].hasattr /\ ~pulled[3].isNone /\ pulled[3].content = <<>>
  /\ Len(events) = 1
  /\ events[1].type = "complete"
  /\ events[1].summary = <<>>

\* the request went past the validation checks of its handler
ValidationPassed == upstream_calls # <<>> \/ pc \notin {"received", "responded"}

\* C16: once validation has passed the original word count is at least 1, in
\* the request text, in the generator's captured count and in every reported
\* result, so the o = 0 branch of the ratio is never taken.
C16_OriginalWordCountPositive ==
  ValidationPassed
    => /\ count_words(request.text) >= 1
       /\ endpoint = "stream" => original_word_count >= 1
       /\ \A rep \in Reports : rep[2] >= 1

C16_Witness ==
  /\ endpoint = "sync"
  /\ response.status = 200
  /\ Len(request.text) = MinTextLen + 2
  /\ response.original_word_count = 1

\* C15: once the client has disconnected in mid-stream the relay emits no
\* further chunk, complete or error event and pulls no further chunk from the
\* upstream.
C15_QuietAfterDisconnect ==
  [][ ~client_connected => (events' = events /\ pulled' = pulled) ]_vars

\* the concatenation of the text of the content-carrying chunks among chunks
ContentsOf(chunks) ==
  LET carrying == SelectSeq(chunks, HasContent)
  IN Concat([i \in 1..Len(carrying) |-> carrying[i].content])

\* the accumulator, the chunk events and the complete event of request r come
\* from r's own upstream chunks and r's own text
OwnChunksOnly(r) ==
  /\ r.summary_text = ContentsOf(r.pulled)
  /\ ChunkContents(r.events) = ContentsOf(r.pulled)
  /\ \A i \in 1..Len(r.events) :
       r.events[i].type = "complete"
         => /\ r.events[i].summary = ContentsOf(r.pulled)
            /\ r.events[i].original_word_count = count_words(r.request.text)

\* C14: with two requests in flight, under every interleaving of their steps,
\* the accumulator, chunk events and complete summary of each request are the
\* concatenation of that request's own upstream chunks, and its statistics
\* come from its own text.
C14_RequestsIsolated ==
  other.pc # "absent" => (OwnChunksOnly(Current) /\ OwnChunksOnly(other))

C14_Witness ==
  /\ endpoint = "stream"
  /\ other.endpoint = "stream"
  /\ request # other.request
  /\ pc = "closed"
  /\ Len(events) = 2
  /\ events[2].type = "complete"
  /\ events[2].summary = <<"a">>
  /\ other.pc = "relay"
  /\ other.summary_text = <<" ", "b">>

\* C17: for the same request, a synchronous response and a streamed complete
\* event whose upstream texts agree (up to the trimming the synchronous
\* handler applies to its summary) report the same original word count,
\* summary word count and compression ratio.
C17_SameStatistics ==
  \A p \in {<<Current, other>>, <<other, Current>>} :
    LET sync == p[1]
        stream == p[2]
        n == Len(stream.events)
    IN ( /\ sync.endpoint = "sync"
         /\ stream.endpoint = "stream"
         /\ sync.request = stream.request
         /\ sync.response.status = 200
         /\ n > 0
         /\ stream.events[n].type = "complete"
         /\ Strip(stream.events[n].summary) = sync.response.summary )
         => /\ stream.events[n].original_word_count = sync.response.original_word_count
            /\ stream.events[n].summary_word_count = sync.response.summary_word_count
            /\ stream.events[n].compression_ratio = sync.response.compression_ratio

C17_Witness ==
  /\ endpoint = "sync"
  /\ other.endpoint = "stream"
  /\ request = other.request
  /\ response.status = 200
  /\ response.summary = <<"b", " ", "b">>
  /\ response.original_word_count = 3
  /\ response.compression_ratio = 333
  /\ Len(other.events) = 3
  /\ other.events[3].type = "complete"
  /\ other.events[3].summary = <<" ", "b", " ", "b">>

====
